---- MODULE Spec2Model ----
(***************************************************************************)
(* portcache: a caching distfile mirror.                                   *)
(*                                                                         *)
(* The module models BlobStorage::request (src/src/blob_storage.rs) and    *)
(* the Fetcher it calls (src/src/fetcher.rs) as one state machine: every   *)
(* request call is a task whose position is pc[r]; the lock sections on    *)
(* fetch_jobs and next_mirror are single steps, every await on the network *)
(* or the filesystem is a step boundary.  The network, the filesystem's    *)
(* failures and the database's failures are the environment: their         *)
(* outcomes are chosen with \E.                                            *)
(*                                                                         *)
(* More specifications share the variables.  FetcherSpec runs the         *)
(* Fetcher alone, with fetch called directly.  FrontendSpec puts the       *)
(* distfiles handler (src/src/frontend.rs) in front of request, behind     *)
(* the mutex of SharedData; TwoFilesSpec is the same handler with two      *)
(* clients that ask for two files.  SyncerSpec is the loop of              *)
(* RepoSyncer::start (src/src/repo_syncer.rs) with its three phases, its   *)
(* ticker and the database it fills.  DbSpec is RepoDB                     *)
(* (src/src/repo_db.rs) on its own: its calls in any order on the two      *)
(* tables of its schema.  ParserSpec is ManifestEntry::parse               *)
(* (src/src/manifest_walker.rs) on the lines the walker reads; a line is   *)
(* the sequence of its parts and a part the sequence of its characters.    *)
(***************************************************************************)
EXTENDS Integers, Sequences, FiniteSets, TLC

(* ------------------------------ bounds -------------------------------- *)
\* tasks that run request at the same time; a task that has returned may call again
NumRequests == 3
\* request calls begun in one run
MaxCalls == 4
NumMirrors == 2
MaxUris == 1
\* directories under storage_root, each the clone of a repository
NumRepos == 2

Requests == 1..NumRequests
Files == {"f", "g"}
\* names for the Arc<Notify> values alive at the same time
Notifiers == 1..(NumRequests + Cardinality(Files) - 1)

\* "no entry" in the fetch_jobs map / "no Arc<Notify> held"
NoJob == 0

(* ----------------------------- variables ------------------------------ *)
VARIABLES
    pc,           \* position of each request call
    rfile,        \* the file argument of each request call
    fetch_jobs,   \* BlobStorage.fetch_jobs: file -> notifier
    holds,        \* the Arc<Notify> clone a waiter holds (active_job)
    waitq,        \* per notifier: tasks registered in notified(), oldest first
    permit,       \* per notifier: the permit notify_one stores when nobody is registered
    blob,         \* what is at blob_location(file): "absent", "partial" or "complete"
    att,          \* per file: writers whose open handle is the file now at the path
    last,         \* per file: the writer that created (truncated) the file last
    next_mirror,  \* Fetcher.next_mirror
    attempt,      \* per request: iterations of the fetch_mirror loop begun
    src,          \* per request: which loop store was called from
    uris,         \* per request: the list get_src_uri returned
    uidx,         \* per request: position in uris
    src_uri,      \* RepoDB table src_uri: rows in insertion order
    result,       \* per request: what the call returned
    how,          \* history of a running call: "leader" (it inserted the job), "waiter",
                  \* "elected" (woken by notify_one) or "broadcast" (by notify_waiters)
    fres,         \* history: what fetcher.fetch returned, until the call has acted on it
    stored,       \* history: a store call of this fetch returned Ok
    afterOk,      \* history of a running call: it began after a call for the same file
                  \* had returned ok
    ncalls,       \* history: request calls begun
    gotBody,      \* history: per file, some GET of the file was answered with a body
    tried,        \* observation: per request, the mirrors select_mirror handed to its fetch
    seen,         \* observation: the last mirror attempt made: by which request, the
                  \* answer to the request for layout.conf, whether the file URL was requested
    after,        \* observation: per request, the tasks whose fetch had returned when
                  \* its fetch began
    hpc,          \* frontend: position of each distfiles handler
    hargs,        \* frontend: the <digest> and <file> segments of the handler's request
    status,       \* frontend: the HTTP status the handler answered with
    storage,      \* frontend: SharedData.storage, the task that holds the mutex
    spc,          \* syncer: position of RepoSyncer::start
    sticks,       \* syncer: ticks of the interval taken
    srepo,        \* syncer: position of the running phase in its loop
    failed,       \* syncer: the vector failed of sync
    changed,      \* syncer: the manifests parse_manifests returns
    sebuild,      \* syncer: position of parse_ebuilds in the ebuilds of a manifest
    disk,         \* syncer: per clone, the size in the DIST line of its Manifest
    clock,        \* syncer: intervals of time gone by
    deadline,     \* syncer: the deadline of the interval, in intervals
    tickat,       \* syncer history: the time at which the last tick began
    cancel,       \* syncer: shutdown of the service has been signalled
    differs,      \* syncer history: the manifests walked in this tick with an entry
                  \* that was new or differed from the stored row
    parsed,       \* syncer history: the (filename, uri) pairs Ebuild::parse
                  \* returned in this tick
    tickres,      \* syncer history: how the current tick ended
    sphases,      \* syncer history: the phases begun and ended in the current tick
    manifest,     \* RepoDB table manifest: a set of rows
    dbop,         \* observation: the last call made on RepoDB and its result
    line,         \* manifest walker: the line of a Manifest read last, in its parts
    mres          \* manifest walker: what ManifestEntry::parse returned for the line

vars == <<pc, rfile, fetch_jobs, holds, waitq, permit, blob, att, last,
          next_mirror, attempt, src, uris, uidx, src_uri, result, how, fres,
          stored, afterOk, ncalls, gotBody, tried, seen, after,
          hpc, hargs, status, storage, spc, sticks, srepo, failed, changed,
          sebuild, disk, clock, deadline, tickat, cancel, differs, parsed,
          tickres, sphases, manifest, dbop, line, mres>>

storeVars == <<blob, att, last>>
notifyVars == <<waitq, permit>>
callVars == <<rfile, how, afterOk, ncalls>>
\* what is recorded of the fetches for the claims about the Fetcher alone
fetchObs == <<tried, seen, after>>
\* the state outside BlobStorage::request and the calls it makes
\* the distfiles handlers of the frontend
frontendVars == <<hpc, hargs, status, storage>>
\* the RepoSyncer task
syncerVars == <<spc, sticks, srepo, failed, changed, sebuild, disk, clock, deadline,
                tickat, cancel, differs, parsed, tickres, sphases>>
\* the table manifest of RepoDB and what is recorded of the calls on RepoDB
dbVars == <<manifest, dbop>>
\* the line the manifest walker is at
parserVars == <<line, mres>>
otherVars == <<fetchObs, frontendVars, syncerVars, dbVars, parserVars>>
\* BlobStorage, its Fetcher, the database and the calls of request
requestVars == <<pc, rfile, fetch_jobs, holds, waitq, permit, blob, att, last,
                 next_mirror, attempt, src, uris, uidx, src_uri, result, how, fres,
                 stored, afterOk, ncalls, gotBody>>

(* ------------------------------ helpers ------------------------------- *)
\* pcs inside fetcher.fetch (blob_storage.rs:115)
FetchPcs == {"fm_select", "su_get", "su_loop", "st_check", "st_create", "st_write"}

fetching(r) == pc[r] \in FetchPcs

\* task r runs no request call: it has not called yet, its call has
\* returned, or it died in the expect of blob_storage.rs:120
Free(r) == pc[r] \in {"idle", "done", "panicked"}

\* an Arc<Notify> is alive while the map or a task holds a reference to it
Live(n, jobs, hs) ==
    \/ \E f \in Files : jobs[f] = n
    \/ \E q \in Requests : hs[q] = n

\* Arc::new(Notify::new()): a notifier nobody refers to, without a permit
NewNotify ==
    CHOOSE n \in Notifiers :
        /\ ~Live(n, fetch_jobs, holds)
        /\ \A m \in Notifiers : ~Live(m, fetch_jobs, holds) => n <= m

\* the permits p once the references are jobs and hs: a notifier whose last
\* reference is dropped is freed, its permit with it
DropDead(p, jobs, hs) == [n \in Notifiers |-> p[n] /\ Live(n, jobs, hs)]

\* path.is_file()
is_file(f) == blob[f] # "absent"

\* Arc::strong_count of the notifier n stored in the map: the map's own
\* reference plus one per task that holds a clone
strong_count(n) == 1 + Cardinality({q \in Requests : holds[q] = n})

\* the layout.conf bodies a mirror may answer with
LayoutCanonical == "[structure]\n0=filename-hash BLAKE2B 8\n"
LayoutBodies == {LayoutCanonical, "[structure]\n0=filename-hash BLAKE2B 8", "[structure]\n0=flat\n"}

\* mirror_layout that does not look at the end of the body
mirror_layout_lax(body) == body \in {LayoutCanonical, "[structure]\n0=filename-hash BLAKE2B 8"}

\* mirror_layout: Ok only for the canonical body
mirror_layout(body) == body = LayoutCanonical

\* select_mirror whose cursor stays on the last mirror
select_mirror_stuck(next) == IF next = NumMirrors - 1 THEN next ELSE next + 1

\* select_mirror: the cursor after handing out mirror next
select_mirror(next) == IF next = NumMirrors - 1 THEN 0 ELSE next + 1

RECURSIVE SelectUris(_, _)
SelectUris(rows, f) ==
    IF rows = <<>> THEN <<>>
    ELSE IF Head(rows).file = f
         THEN <<Head(rows).uri>> \o SelectUris(Tail(rows), f)
         ELSE SelectUris(Tail(rows), f)

\* RepoDB::get_src_uri: SELECT uri FROM src_uri WHERE file = ?1
get_src_uri(f) == SelectUris(src_uri, f)

\* the database states the request path may find
RECURSIVE RowsFor(_, _)
RowsFor(f, k) == IF k = 0 THEN <<>> ELSE RowsFor(f, k - 1) \o <<[uri |-> k, file |-> f]>>

InitialTables == {RowsFor("f", k) : k \in 0..MaxUris}

(* ------------------------------- RepoDB ------------------------------- *)
\* Option::None of a checksum of a ManifestEntry
None == "none"

\* file sizes of Manifest entries
Sizes == {1, 2}

\* the Manifest files, one per repository
Origins == 1..NumRepos

\* manifest_walker.rs:10-25, the values of ManifestEntry
ManifestEntries ==
    [file : Files, origin : Origins, size : Sizes,
     blake2b : {None, "b1"}, sha512 : {None, "s1"}]

\* repo_db.rs:56-62, the row insert_manifest_entry binds to the statement:
\* a missing checksum is bound as the text NULL
ManifestRow(entry) ==
    [file |-> entry.file, origin |-> entry.origin, size |-> entry.size,
     blake2b |-> IF entry.blake2b = None THEN "NULL" ELSE entry.blake2b,
     sha512 |-> IF entry.sha512 = None THEN "NULL" ELSE entry.sha512]

\* the files that have a row in table tbl
FilesOf(tbl) == {row.file : row \in tbl}

\* repo_db.rs:18, PRAGMA foreign_keys = 1 on the connection
foreign_keys_off == FALSE

foreign_keys == TRUE

\* repo_db.rs:52-66 with the schema of repo_db.rs:24-30: a plain INSERT;
\* file is the PRIMARY KEY, so a row with the same file makes the
\* statement fail and the table stays as it is
insert_manifest_entry(tbl, entry) ==
    IF entry.file \in FilesOf(tbl)
    THEN [ok |-> FALSE, table |-> tbl]
    ELSE [ok |-> TRUE, table |-> tbl \cup {ManifestRow(entry)}]

\* the uris that have a row in the rows of table src_uri
UrisOf(rows) == {rows[i].uri : i \in 1..Len(rows)}

\* repo_db.rs:70-78 with the schema of repo_db.rs:38-41: a plain INSERT;
\* uri is the PRIMARY KEY and file REFERENCES manifest(file), so a row
\* with the same uri, or a file without a manifest row while foreign keys
\* are enforced, makes the statement fail
insert_src_uri(rows, tbl, file, uri) ==
    IF uri \in UrisOf(rows) \/ (foreign_keys /\ file \notin FilesOf(tbl))
    THEN [ok |-> FALSE, table |-> rows]
    ELSE [ok |-> TRUE, table |-> Append(rows, [uri |-> uri, file |-> file])]

\* the rows of table src_uri that are not of file f, in their order
RECURSIVE RowsNotOf(_, _)
RowsNotOf(rows, f) ==
    IF rows = <<>> THEN <<>>
    ELSE IF Head(rows).file = f
         THEN RowsNotOf(Tail(rows), f)
         ELSE <<Head(rows)>> \o RowsNotOf(Tail(rows), f)

\* repo_db.rs:40, ON DELETE CASCADE: the rows of src_uri left when the
\* manifest row of file f is deleted
delete_cascade(rows, f) == IF foreign_keys THEN RowsNotOf(rows, f) ELSE rows

\* the table manifest the request path finds: every file has been indexed
Indexed ==
    {[file |-> f, origin |-> 1, size |-> 1, blake2b |-> "b1", sha512 |-> "s1"] : f \in Files}

\* nothing returned: no entry parsed, no line parsed yet
NoResult == [ok |-> FALSE, file |-> <<>>, size |-> <<>>, blake2b |-> <<>>, sha512 |-> <<>>]

\* the manifest walker has read no line
NoLine == line = <<>> /\ mres = NoResult

\* no call made on RepoDB yet
NoOp == [op |-> "none", file |-> "f", uri |-> 0, size |-> 0, ok |-> TRUE, n |-> 0]

\* no request handled yet
NoArgs == [digest |-> <<>>, file |-> "f"]

\* no mirror attempt made yet
NoAttempt == [by |-> 0, layout |-> "none", requested |-> FALSE]

(* -------------------------------- Init -------------------------------- *)
\* the state after construction, but for the content of the database
Start ==
    /\ pc = [r \in Requests |-> "idle"]
    /\ rfile = [r \in Requests |-> "f"]
    /\ fetch_jobs = [f \in Files |-> NoJob]
    /\ holds = [r \in Requests |-> NoJob]
    /\ waitq = [n \in Notifiers |-> <<>>]
    /\ permit = [n \in Notifiers |-> FALSE]
    /\ blob = [f \in Files |-> "absent"]
    /\ att = [f \in Files |-> {}]
    /\ last = [f \in Files |-> NoJob]
    /\ next_mirror = 0
    /\ attempt = [r \in Requests |-> 0]
    /\ src = [r \in Requests |-> "mirror"]
    /\ uris = [r \in Requests |-> <<>>]
    /\ uidx = [r \in Requests |-> 1]
    /\ result = [r \in Requests |-> "none"]
    /\ how = [r \in Requests |-> "none"]
    /\ fres = [r \in Requests |-> "none"]
    /\ stored = [r \in Requests |-> FALSE]
    /\ afterOk = [r \in Requests |-> FALSE]
    /\ ncalls = 0
    /\ gotBody = [f \in Files |-> FALSE]
    /\ tried = [r \in Requests |-> <<>>]
    /\ seen = NoAttempt
    /\ after = [r \in Requests |-> {}]
    /\ hpc = [r \in Requests |-> "idle"]
    /\ hargs = [r \in Requests |-> NoArgs]
    /\ status = [r \in Requests |-> "none"]
    /\ storage = NoJob
    /\ spc = "tick"
    /\ sticks = 0
    /\ srepo = 1
    /\ failed = {}
    /\ changed = {}
    /\ sebuild = 0
    /\ disk = [m \in Origins |-> 1]
    /\ clock = 0
    /\ deadline = 0
    /\ tickat = 0
    /\ cancel = FALSE
    /\ differs = {}
    /\ parsed = {}
    /\ tickres = "none"
    /\ sphases = <<>>
    /\ dbop = NoOp

Init == Start /\ src_uri \in InitialTables /\ manifest = Indexed /\ NoLine

(* ----------------------- BlobStorage::request ------------------------- *)
\* blob_storage.rs:73-78, task r enters request(f)
BeginRequest(r, f) ==
    /\ pc' = [pc EXCEPT ![r] = "lock"]
    /\ rfile' = [rfile EXCEPT ![r] = f]
    /\ result' = [result EXCEPT ![r] = "none"]
    /\ how' = [how EXCEPT ![r] = "none"]
    /\ afterOk' = [afterOk EXCEPT ![r] =
                     \E q \in Requests : /\ pc[q] = "done"
                                         /\ rfile[q] = f
                                         /\ result[q] = "ok"]
    /\ UNCHANGED <<fetch_jobs, holds, notifyVars, storeVars, next_mirror, attempt,
                   src, uris, uidx, src_uri, fres, stored, gotBody>>

\* a client calls request(f): the call is run by the first task that runs
\* none (tasks are interchangeable)
Call(r, f) ==
    /\ Free(r)
    /\ \A q \in Requests : q < r => ~Free(q)
    /\ ncalls < MaxCalls
    /\ ncalls' = ncalls + 1
    /\ BeginRequest(r, f)
    /\ UNCHANGED otherVars

\* blob_storage.rs:82-101, the first critical section on fetch_jobs
Lock(r) ==
    /\ pc[r] = "lock"
    /\ LET f == rfile[r] IN
       IF fetch_jobs[f] # NoJob
       THEN \* Some(job) => Some(job.clone())
            /\ holds' = [holds EXCEPT ![r] = fetch_jobs[f]]
            /\ pc' = [pc EXCEPT ![r] = "prewait"]
            /\ how' = [how EXCEPT ![r] = "waiter"]
            /\ UNCHANGED <<fetch_jobs, result, afterOk>>
       ELSE IF is_file(f)
       THEN \* cache hit
            /\ pc' = [pc EXCEPT ![r] = "done"]
            /\ result' = [result EXCEPT ![r] = "ok"]
            /\ afterOk' = [afterOk EXCEPT ![r] = FALSE]
            /\ UNCHANGED <<fetch_jobs, holds, how>>
       ELSE \* insert a new job; this task calls fetcher.fetch
            /\ fetch_jobs' = [fetch_jobs EXCEPT ![f] = NewNotify]
            /\ pc' = [pc EXCEPT ![r] = "fm_select"]
            /\ how' = [how EXCEPT ![r] = "leader"]
            /\ UNCHANGED <<holds, result, afterOk>>
    /\ UNCHANGED <<rfile, notifyVars, storeVars, next_mirror, attempt, src, uris,
                   uidx, src_uri, otherVars, fres, stored, ncalls, gotBody>>

\* blob_storage.rs:106, active_job.notified().await: take the stored permit
\* or register as a waiter
Notified(r) ==
    /\ pc[r] = "prewait"
    /\ LET n == holds[r] IN
       IF permit[n]
       THEN /\ permit' = [permit EXCEPT ![n] = FALSE]
            /\ pc' = [pc EXCEPT ![r] = "woken"]
            /\ how' = [how EXCEPT ![r] = "elected"]
            /\ UNCHANGED waitq
       ELSE /\ waitq' = [waitq EXCEPT ![n] = Append(@, r)]
            /\ pc' = [pc EXCEPT ![r] = "waiting"]
            /\ UNCHANGED <<permit, how>>
    /\ UNCHANGED <<rfile, afterOk, ncalls, fetch_jobs, holds, storeVars, next_mirror, attempt,
                   src, uris, uidx, src_uri, otherVars, result, fres, stored, gotBody>>

\* blob_storage.rs:107-115, a notified waiter: return the file if it is
\* there, else drop the clone and call fetcher.fetch
Woken(r) ==
    /\ pc[r] = "woken"
    /\ holds' = [holds EXCEPT ![r] = NoJob]
    /\ permit' = DropDead(permit, fetch_jobs, holds')
    /\ IF is_file(rfile[r])
       THEN /\ pc' = [pc EXCEPT ![r] = "done"]
            /\ result' = [result EXCEPT ![r] = "ok"]
            /\ how' = [how EXCEPT ![r] = "none"]
            /\ afterOk' = [afterOk EXCEPT ![r] = FALSE]
       ELSE /\ pc' = [pc EXCEPT ![r] = "fm_select"]
            /\ UNCHANGED <<result, how, afterOk>>
    /\ UNCHANGED <<rfile, ncalls, fetch_jobs, waitq, storeVars, next_mirror,
                   attempt, src, uris, uidx, src_uri, otherVars, fres, stored, gotBody>>

\* blob_storage.rs:117, if path.is_file() after fetch returned Err
Cleanup(r) ==
    /\ pc[r] = "cleanup"
    /\ pc' = [pc EXCEPT ![r] = IF is_file(rfile[r]) THEN "cleanup_rm" ELSE "decide"]
    /\ UNCHANGED <<callVars, fetch_jobs, holds, notifyVars, storeVars, next_mirror,
                   attempt, src, uris, uidx, src_uri, otherVars, result, fres, stored,
                   gotBody>>

\* blob_storage.rs:118-120, fs::remove_file(&path).await.expect(..): unlink
\* whatever is at the path; panic when nothing is there any more
CleanupRemove(r) ==
    /\ pc[r] = "cleanup_rm"
    /\ LET f == rfile[r] IN
       IF is_file(f)
       THEN /\ blob' = [blob EXCEPT ![f] = "absent"]
            /\ att' = [att EXCEPT ![f] = {}]
            /\ last' = [last EXCEPT ![f] = NoJob]
            /\ pc' = [pc EXCEPT ![r] = "decide"]
            /\ UNCHANGED <<fres, stored, how, afterOk>>
       ELSE /\ pc' = [pc EXCEPT ![r] = "panicked"]
            /\ fres' = [fres EXCEPT ![r] = "none"]
            /\ stored' = [stored EXCEPT ![r] = FALSE]
            /\ how' = [how EXCEPT ![r] = "none"]
            /\ afterOk' = [afterOk EXCEPT ![r] = FALSE]
            /\ UNCHANGED <<blob, att, last>>
    /\ UNCHANGED <<rfile, ncalls, fetch_jobs, holds, notifyVars, next_mirror,
                   attempt, src, uris, uidx, src_uri, otherVars, result, gotBody>>

\* Notify::notify_one on notifier n: wake the oldest registered waiter, or
\* store a permit when none is registered
notify_one_pc(n, p) ==
    IF waitq[n] # <<>> THEN [p EXCEPT ![Head(waitq[n])] = "woken"] ELSE p

notify_one_how(n, h) ==
    IF waitq[n] # <<>> THEN [h EXCEPT ![Head(waitq[n])] = "elected"] ELSE h

notify_one_waitq(n) ==
    IF waitq[n] # <<>> THEN [waitq EXCEPT ![n] = Tail(@)] ELSE waitq

notify_one_permit(n) ==
    IF waitq[n] # <<>> THEN permit ELSE [permit EXCEPT ![n] = TRUE]

\* the test of blob_storage.rs:126 without the count of the references
has_waiters_any(n) == n # NoJob

\* blob_storage.rs:126, the test that decides between election and removal
has_waiters(n) == n # NoJob /\ strong_count(n) > 1

\* blob_storage.rs:123-136, the critical section after a failed fetch
Decide(r) ==
    /\ pc[r] = "decide"
    /\ LET f == rfile[r]
           n == fetch_jobs[f] IN
       IF has_waiters(n)
       THEN \* notify one waiter to retry and return Err
            /\ pc' = notify_one_pc(n, [pc EXCEPT ![r] = "done"])
            /\ waitq' = notify_one_waitq(n)
            /\ permit' = notify_one_permit(n)
            /\ how' = notify_one_how(n, [how EXCEPT ![r] = "none"])
            /\ afterOk' = [afterOk EXCEPT ![r] = FALSE]
            /\ result' = [result EXCEPT ![r] = "err"]
            /\ fres' = [fres EXCEPT ![r] = "none"]
            /\ stored' = [stored EXCEPT ![r] = FALSE]
            /\ UNCHANGED fetch_jobs
       ELSE \* no waiter: drop the job (if any) and fall through to line 140
            /\ fetch_jobs' = [fetch_jobs EXCEPT ![f] = NoJob]
            /\ permit' = DropDead(permit, fetch_jobs', holds)
            /\ pc' = [pc EXCEPT ![r] = "final"]
            /\ UNCHANGED <<waitq, how, afterOk, result, fres, stored>>
    /\ UNCHANGED <<rfile, ncalls, holds, storeVars, next_mirror, attempt, src, uris,
                   uidx, src_uri, otherVars, gotBody>>

\* Notify::notify_waiters on notifier n: every registered task is woken
notify_waiters_pc(n, p) ==
    [q \in Requests |->
        IF \E i \in 1..Len(waitq[n]) : waitq[n][i] = q THEN "woken" ELSE p[q]]

notify_waiters_how(n, h) ==
    [q \in Requests |->
        IF \E i \in 1..Len(waitq[n]) : waitq[n][i] = q THEN "broadcast" ELSE h[q]]

\* blob_storage.rs:140-143, remove the job and notify_waiters; no permit is
\* stored for a task that has not registered yet
Final(r) ==
    /\ pc[r] = "final"
    /\ LET f == rfile[r]
           n == fetch_jobs[f] IN
       IF n # NoJob
       THEN /\ fetch_jobs' = [fetch_jobs EXCEPT ![f] = NoJob]
            /\ pc' = notify_waiters_pc(n, [pc EXCEPT ![r] = "finish"])
            /\ how' = notify_waiters_how(n, how)
            /\ waitq' = [waitq EXCEPT ![n] = <<>>]
            /\ permit' = DropDead(permit, fetch_jobs', holds)
       ELSE /\ pc' = [pc EXCEPT ![r] = "finish"]
            /\ UNCHANGED <<fetch_jobs, waitq, permit, how>>
    /\ fres' = [fres EXCEPT ![r] = "none"]
    /\ stored' = [stored EXCEPT ![r] = FALSE]
    /\ UNCHANGED <<rfile, afterOk, ncalls, holds, storeVars, next_mirror, attempt, src,
                   uris, uidx, src_uri, otherVars, result, gotBody>>

\* blob_storage.rs:146-150
Finish(r) ==
    /\ pc[r] = "finish"
    /\ pc' = [pc EXCEPT ![r] = "done"]
    /\ result' = [result EXCEPT ![r] = IF is_file(rfile[r]) THEN "ok" ELSE "err"]
    /\ how' = [how EXCEPT ![r] = "none"]
    /\ afterOk' = [afterOk EXCEPT ![r] = FALSE]
    /\ UNCHANGED <<rfile, ncalls, fetch_jobs, holds, notifyVars, storeVars, next_mirror,
                   attempt, src, uris, uidx, src_uri, otherVars, fres, stored, gotBody>>

(* ------------------------------ Fetcher ------------------------------- *)
\* fetcher.fetch returns to blob_storage.rs:115: Ok leads to line 140, Err to
\* the cleanup of line 117; the locals of the call are gone
FetchReturn(r, ok) ==
    /\ pc' = [pc EXCEPT ![r] = IF ok THEN "final" ELSE "cleanup"]
    /\ fres' = [fres EXCEPT ![r] = IF ok THEN "ok" ELSE "err"]
    /\ attempt' = [attempt EXCEPT ![r] = 0]
    /\ src' = [src EXCEPT ![r] = "mirror"]
    /\ uris' = [uris EXCEPT ![r] = <<>>]
    /\ uidx' = [uidx EXCEPT ![r] = 1]

\* fetcher.rs:127-166 and 180-183, one iteration of the fetch_mirror loop:
\* select_mirror, mirror_layout, GET of the file; got says that the layout
\* was accepted and the GET answered with a body; a failure in the last
\* iteration ends fetch_mirror with Err and fetch goes on to fetch_src_uri
MirrorAttempt(r, got) ==
    /\ pc[r] = "fm_select"
    /\ next_mirror' = select_mirror(next_mirror)
    /\ attempt' = [attempt EXCEPT ![r] = @ + 1]
    /\ IF got
       THEN /\ pc' = [pc EXCEPT ![r] = "st_check"]
            /\ gotBody' = [gotBody EXCEPT ![rfile[r]] = TRUE]
       ELSE /\ pc' = [pc EXCEPT ![r] =
                        IF attempt[r] + 1 = NumMirrors THEN "su_get" ELSE "fm_select"]
            /\ UNCHANGED gotBody
    /\ UNCHANGED <<callVars, fetch_jobs, holds, notifyVars, storeVars, src, uris,
                   uidx, src_uri, result, fres, stored>>

\* the answers a mirror may give to the request for layout.conf
LayoutAnswers == LayoutBodies \cup {"request failed"}

FetchMirror(r) ==
    /\ \E got \in {mirror_layout(layout) /\ get = "ok" :
                       layout \in LayoutAnswers, get \in {"ok", "failed"}} :
          MirrorAttempt(r, got)
    /\ UNCHANGED otherVars

\* the same iteration with what happened in it recorded: the mirror
\* select_mirror handed out (fetcher.rs:63), the answer to the layout request
\* and whether the file URL was requested (fetcher.rs:132-154)
FetchMirrorSeen(r) ==
    \E layout \in LayoutAnswers, get \in {"ok", "failed"} :
        /\ MirrorAttempt(r, mirror_layout(layout) /\ get = "ok")
        /\ tried' = [tried EXCEPT ![r] = Append(@, next_mirror)]
        /\ seen' = [by |-> r, layout |-> layout, requested |-> mirror_layout(layout)]
        /\ UNCHANGED <<after, frontendVars, syncerVars, dbVars, parserVars>>

\* fetcher.rs:201-221, the fetch_src_uri loop at position i of list us:
\* Ok(()) when the list is exhausted
SrcUriAt(r, us, i) ==
    IF i > Len(us)
    THEN /\ FetchReturn(r, TRUE)
    ELSE /\ pc' = [pc EXCEPT ![r] = "su_loop"]
         /\ uris' = [uris EXCEPT ![r] = us]
         /\ uidx' = [uidx EXCEPT ![r] = i]
         /\ src' = [src EXCEPT ![r] = "uri"]
         /\ attempt' = [attempt EXCEPT ![r] = 0]
         /\ UNCHANGED fres

\* fetcher.rs:197-200, repo_db.get_src_uri: the rows of the file, or a
\* database error, which fetch_src_uri returns and fetch turns into Err(())
GetSrcUri(r) ==
    /\ pc[r] = "su_get"
    /\ \/ SrcUriAt(r, get_src_uri(rfile[r]), 1)
       \/ FetchReturn(r, FALSE)
    /\ UNCHANGED <<callVars, fetch_jobs, holds, notifyVars, storeVars, next_mirror,
                   src_uri, otherVars, result, stored, gotBody>>

\* fetcher.rs:202-216, GET of the next URI: `continue` on an error
FetchSrcUri(r) ==
    /\ pc[r] = "su_loop"
    /\ \E get \in {"ok", "failed"} :
          IF get = "ok"
          THEN /\ pc' = [pc EXCEPT ![r] = "st_check"]
               /\ gotBody' = [gotBody EXCEPT ![rfile[r]] = TRUE]
               /\ UNCHANGED <<uris, uidx, src, attempt, fres>>
          ELSE /\ SrcUriAt(r, uris[r], uidx[r] + 1)
               /\ UNCHANGED gotBody
    /\ UNCHANGED <<callVars, fetch_jobs, holds, notifyVars, storeVars, next_mirror,
                   src_uri, otherVars, result, stored>>

\* where a store call returns to: fetch_mirror returns Ok on Ok and goes on to
\* the next mirror on Err (fetcher.rs:168-177, 231-232); fetch_src_uri goes on
\* to the next URI on Ok and returns the Err (fetcher.rs:218 `?`)
StoreReturn(r, ok) ==
    IF src[r] = "mirror"
    THEN IF ok
         THEN FetchReturn(r, TRUE)
         ELSE /\ pc' = [pc EXCEPT ![r] =
                          IF attempt[r] = NumMirrors THEN "su_get" ELSE "fm_select"]
              /\ UNCHANGED <<attempt, src, uris, uidx, fres>>
    ELSE IF ok
         THEN SrcUriAt(r, uris[r], uidx[r] + 1)
         ELSE FetchReturn(r, FALSE)

\* fetcher.rs:82-88, store: a file at the path ends the call with Ok
StoreCheck(r) ==
    /\ pc[r] = "st_check"
    /\ IF is_file(rfile[r])
       THEN /\ StoreReturn(r, TRUE)
            /\ stored' = [stored EXCEPT ![r] = TRUE]
       ELSE /\ pc' = [pc EXCEPT ![r] = "st_create"]
            /\ UNCHANGED <<attempt, src, uris, uidx, fres, stored>>
    /\ UNCHANGED <<callVars, fetch_jobs, holds, notifyVars, storeVars, next_mirror,
                   src_uri, otherVars, result, gotBody>>

\* fetcher.rs:90-99, create_dir and File::create: the file is created empty
\* (an existing one is truncated), or one of the two calls fails
StoreCreate(r) ==
    /\ pc[r] = "st_create"
    /\ LET f == rfile[r] IN
       \/ /\ blob' = [blob EXCEPT ![f] = "partial"]
          /\ att' = [att EXCEPT ![f] = @ \cup {r}]
          /\ last' = [last EXCEPT ![f] = r]
          /\ pc' = [pc EXCEPT ![r] = "st_write"]
          /\ UNCHANGED <<attempt, src, uris, uidx, fres>>
       \/ /\ StoreReturn(r, FALSE)
          /\ UNCHANGED <<blob, att, last>>
    /\ UNCHANGED <<callVars, fetch_jobs, holds, notifyVars, next_mirror, src_uri, otherVars,
                   result, stored, gotBody>>

\* the content at the path once writer r has written its last chunk: the
\* writer that truncated last has written every byte; an earlier writer
\* shares the file with one that may still be writing
blobAfterWrite(r, f) ==
    IF r \notin att[f] THEN {blob[f]}
    ELSE IF last[f] = r THEN {"complete"}
    ELSE {blob[f], "complete"}

\* writer r drops its handle: who truncated last matters only while a handle
\* on the file at the path is open
lastAfterClose(r, f) == IF att[f] \ {r} = {} THEN [last EXCEPT ![f] = NoJob] ELSE last

\* fetcher.rs:101-118, the write loop of store
StoreWrite(r) ==
    /\ pc[r] = "st_write"
    /\ LET f == rfile[r] IN
       \/ \* stream ended, final flush ok: Ok(())
          /\ \E b \in blobAfterWrite(r, f) : blob' = [blob EXCEPT ![f] = b]
          /\ att' = [att EXCEPT ![f] = @ \ {r}]
          /\ last' = lastAfterClose(r, f)
          /\ stored' = [stored EXCEPT ![r] = TRUE]
          /\ StoreReturn(r, TRUE)
       \/ \* chunk error, flush ok, remove_file ok: what is at the path is unlinked
          /\ is_file(f)
          /\ blob' = [blob EXCEPT ![f] = "absent"]
          /\ att' = [att EXCEPT ![f] = {}]
          /\ last' = [last EXCEPT ![f] = NoJob]
          /\ UNCHANGED stored
          /\ StoreReturn(r, FALSE)
       \/ \* chunk error, flush ok, remove_file fails: nothing at the path
          /\ ~is_file(f)
          /\ UNCHANGED <<blob, att, last, stored>>
          /\ StoreReturn(r, FALSE)
       \/ \* write_all or flush error (fetcher.rs:103, 113, 116 `?`): the file stays
          /\ att' = [att EXCEPT ![f] = @ \ {r}]
          /\ last' = lastAfterClose(r, f)
          /\ UNCHANGED <<blob, stored>>
          /\ StoreReturn(r, FALSE)
    /\ UNCHANGED <<callVars, fetch_jobs, holds, notifyVars, next_mirror,
                   src_uri, otherVars, result, gotBody>>

(* ---------------------------- specification --------------------------- *)
\* every step of a call but its beginning: the runtime polls every task that
\* is ready, so a call that can take a step eventually takes one
Run(r) ==
    \/ Lock(r)
    \/ Notified(r)
    \/ Woken(r)
    \/ FetchMirror(r)
    \/ GetSrcUri(r)
    \/ FetchSrcUri(r)
    \/ StoreCheck(r)
    \/ StoreCreate(r)
    \/ StoreWrite(r)
    \/ Cleanup(r)
    \/ CleanupRemove(r)
    \/ Decide(r)
    \/ Final(r)
    \/ Finish(r)

\* the calls of this specification are all for one file
Next == \E r \in Requests : Call(r, "f") \/ Run(r)

Spec == Init /\ [][Next]_vars

FairSpec == Spec /\ \A r \in Requests : WF_vars(Run(r))

(* ------------------- the Fetcher under concurrent fetches ------------- *)
\* URIs a file has in the database in the runs of the Fetcher alone
MaxFetchUris == 2
\* tasks that call fetch in these runs, once each
NumFetchTasks == 2

FetchTasks == 1..NumFetchTasks

\* file g has one URI, file f up to MaxFetchUris
FetcherTables == {RowsFor("f", j) \o RowsFor("g", 1) : j \in 0..MaxFetchUris}

FetcherInit == Start /\ src_uri \in FetcherTables /\ manifest = Indexed /\ NoLine

\* blob_storage.rs:82-115 for a call that finds neither a job nor the file:
\* task r calls fetcher.fetch(f); the leaders of different files fetch
\* at the same time
FetchCall(r, f) ==
    /\ pc[r] = "idle"
    /\ \A q \in FetchTasks : q < r => pc[q] # "idle"
    /\ ~is_file(f)
    /\ \A q \in Requests : fetching(q) => rfile[q] # f
    /\ pc' = [pc EXCEPT ![r] = "fm_select"]
    /\ rfile' = [rfile EXCEPT ![r] = f]
    /\ how' = [how EXCEPT ![r] = "leader"]
    /\ ncalls' = ncalls + 1
    /\ after' = [after EXCEPT ![r] = {q \in Requests : pc[q] \in {"final", "cleanup"}}]
    /\ UNCHANGED <<fetch_jobs, holds, notifyVars, storeVars, next_mirror, attempt,
                   src, uris, uidx, src_uri, result, fres, stored, afterOk, gotBody,
                   tried, seen, frontendVars, syncerVars, dbVars, parserVars>>

FetcherNext ==
    \E r \in FetchTasks :
        \/ \E f \in Files : FetchCall(r, f)
        \/ FetchMirrorSeen(r)
        \/ GetSrcUri(r)
        \/ FetchSrcUri(r)
        \/ StoreCheck(r)
        \/ StoreCreate(r)
        \/ StoreWrite(r)

FetcherSpec == FetcherInit /\ [][FetcherNext]_vars

(* ------------------------------ frontend ------------------------------ *)
\* utils.rs:7-12, filename_hash_dir_blake2b: the first byte of the BLAKE2b
\* hash of the name as two lower-case hex digits; the hash itself is not
\* computed here, the table gives the directory of each file of the model
filename_hash_dir_blake2b(name) ==
    IF name = "f" THEN <<"4", "e">> ELSE <<"a", "0">>

HexDigits == {"0", "1", "2", "3", "4", "5", "6", "7", "8", "9",
              "a", "b", "c", "d", "e", "f", "A", "B", "C", "D", "E", "F"}

\* hex::decode(digest).is_ok(): an even number of hex digits
hex_decode_ok(digest) ==
    /\ Len(digest) % 2 = 0
    /\ \A i \in 1..Len(digest) : digest[i] \in HexDigits

\* digest.contains("/")
contains_slash(digest) == \E i \in 1..Len(digest) : digest[i] = "/"

\* the <digest> segments clients send: the directory of f, two hex digits
\* that are not it, two characters that are no hex digits, too short, too long
Digests == {<<"4", "e">>, <<"0", "0">>, <<"z", "z">>, <<"4">>, <<"4", "e", "0">>}

\* frontend.rs:37-51, the sanity checks of distfiles: Err(BadRequest) or on
\* to the lock of the storage
Distfiles(r, digest, file) ==
    /\ hpc[r] = "idle"
    /\ \A q \in Requests : q < r => hpc[q] # "idle"
    /\ ncalls < MaxCalls
    /\ hargs' = [hargs EXCEPT ![r] = [digest |-> digest, file |-> file]]
    /\ IF Len(digest) # 2 \/ ~hex_decode_ok(digest) \/ contains_slash(digest)
       THEN /\ status' = [status EXCEPT ![r] = "400"]
            /\ UNCHANGED <<hpc, ncalls>>
       ELSE /\ status' = [status EXCEPT ![r] = "none"]
            /\ hpc' = [hpc EXCEPT ![r] = "locking"]
            /\ ncalls' = ncalls + 1
    /\ UNCHANGED <<pc, rfile, result, how, afterOk, fetch_jobs, holds, notifyVars,
                   storeVars, next_mirror, attempt, src, uris, uidx, src_uri, fres,
                   stored, gotBody, fetchObs, storage, syncerVars, dbVars, parserVars>>

\* frontend.rs:53-54, shared.storage.lock().await and the call of request
\* with the lock held
StorageLock(r) ==
    /\ hpc[r] = "locking"
    /\ storage = NoJob
    /\ storage' = r
    /\ hpc' = [hpc EXCEPT ![r] = "request"]
    /\ BeginRequest(r, hargs[r].file)
    /\ UNCHANGED <<ncalls, fetchObs, hargs, status, syncerVars, dbVars, parserVars>>

\* frontend.rs:54-59, request has returned: Err gives 404; Ok opens the
\* file and streams it, a failed open panics in unwrap (500); the panic of
\* blob_storage.rs:120 ends the handler the same way; the guard is dropped
Respond(r) ==
    /\ hpc[r] = "request"
    /\ pc[r] \in {"done", "panicked"}
    /\ \E opened \in BOOLEAN :
          status' = [status EXCEPT ![r] =
                        IF pc[r] = "panicked" THEN "500"
                        ELSE IF result[r] = "err" THEN "404"
                        ELSE IF opened THEN "200" ELSE "500"]
    /\ hpc' = [hpc EXCEPT ![r] = "idle"]
    /\ storage' = NoJob
    /\ UNCHANGED <<pc, rfile, result, how, afterOk, ncalls, fetch_jobs, holds,
                   notifyVars, storeVars, next_mirror, attempt, src, uris, uidx,
                   src_uri, fres, stored, gotBody, fetchObs, hargs, syncerVars, dbVars,
                   parserVars>>

\* the steps of request that a call made with the storage locked can take:
\* no other call is in progress, so that it never finds a job to wait on
FrontendRun(r) ==
    \/ Lock(r)
    \/ FetchMirror(r)
    \/ GetSrcUri(r)
    \/ FetchSrcUri(r)
    \/ StoreCheck(r)
    \/ StoreCreate(r)
    \/ StoreWrite(r)
    \/ Cleanup(r)
    \/ CleanupRemove(r)
    \/ Decide(r)
    \/ Final(r)
    \/ Finish(r)

FrontendNext ==
    \E r \in Requests :
        \/ \E digest \in Digests : Distfiles(r, digest, "f")
        \/ StorageLock(r)
        \/ FrontendRun(r)
        \/ Respond(r)

FrontendSpec == Init /\ [][FrontendNext]_vars

\* two clients, each asking for a file of its own under the file's digest
Clients == 1..2

FileFor(r) == IF r = 1 THEN "f" ELSE "g"

TwoFilesNext ==
    \E r \in Clients :
        \/ Distfiles(r, filename_hash_dir_blake2b(FileFor(r)), FileFor(r))
        \/ StorageLock(r)
        \/ FrontendRun(r)
        \/ Respond(r)

TwoFilesSpec == Init /\ [][TwoFilesNext]_vars

(* ------------------------- RepoDB on its own -------------------------- *)
\* the uris of the rows of src_uri
Uris == 1..2

\* everything but the two tables and the record of the last call
notDb ==
    <<pc, rfile, fetch_jobs, holds, waitq, permit, blob, att, last, next_mirror,
      attempt, src, uris, uidx, result, how, fres, stored, afterOk, ncalls,
      gotBody, fetchObs, frontendVars, syncerVars, parserVars>>

\* RepoDB::insert_manifest_entry(entry)
InsertManifestEntry(entry) ==
    LET res == insert_manifest_entry(manifest, entry) IN
    /\ manifest' = res.table
    /\ dbop' = [op |-> "insert_manifest_entry", file |-> entry.file, uri |-> 0,
                size |-> entry.size, ok |-> res.ok, n |-> 0]
    /\ UNCHANGED <<src_uri, notDb>>

\* RepoDB::insert_src_uri(file, uri)
InsertSrcUri(file, uri) ==
    LET res == insert_src_uri(src_uri, manifest, file, uri) IN
    /\ src_uri' = res.table
    /\ dbop' = [op |-> "insert_src_uri", file |-> file, uri |-> uri,
                size |-> 0, ok |-> res.ok, n |-> 0]
    /\ UNCHANGED <<manifest, notDb>>

\* RepoDB::get_src_uri(file)
SelectSrcUri(file) ==
    /\ dbop' = [op |-> "get_src_uri", file |-> file, uri |-> 0, size |-> 0,
                ok |-> TRUE, n |-> Len(get_src_uri(file))]
    /\ UNCHANGED <<manifest, src_uri, notDb>>

\* DELETE FROM manifest WHERE file = ?1 on the connection of RepoDB (no
\* method of RepoDB issues it): the schema of repo_db.rs:38-41 decides
\* what becomes of the rows of src_uri
DeleteManifest(file) ==
    /\ file \in FilesOf(manifest)
    /\ manifest' = {row \in manifest : row.file # file}
    /\ src_uri' = delete_cascade(src_uri, file)
    /\ dbop' = [op |-> "delete", file |-> file, uri |-> 0, size |-> 0,
                ok |-> TRUE, n |-> Len(src_uri) - Len(src_uri')]
    /\ UNCHANGED notDb

\* repo_db.rs:12-49, new on a fresh database file: both tables are empty
DbInit == Start /\ src_uri = <<>> /\ manifest = {} /\ NoLine

DbNext ==
    \/ \E entry \in ManifestEntries : InsertManifestEntry(entry)
    \/ \E file \in Files, uri \in Uris : InsertSrcUri(file, uri)
    \/ \E file \in Files : SelectSrcUri(file)
    \/ \E file \in Files : DeleteManifest(file)

DbSpec == DbInit /\ [][DbNext]_vars

(* ----------------------------- RepoSyncer ----------------------------- *)
\* ticks of the interval in one run
MaxTicks == 3

\* a loop that goes on to parse_ebuilds when sync has returned Ok
after_sync_skip(ok) == IF ok THEN "ebuilds" ELSE "tick"

\* repo_syncer.rs:103-106: where start goes when sync has returned
after_sync(ok) == IF ok THEN "manifests_dir" ELSE "tick"

\* repo_syncer.rs:109-115: where start goes when parse_manifests has returned
after_manifests(ok) == IF ok THEN "ebuilds" ELSE "tick"

\* the phase that position p begins, if any
PhaseOf(p) ==
    IF p = "manifests_dir" THEN <<"manifests">>
    ELSE IF p = "ebuilds" THEN <<"ebuilds">> ELSE <<>>

\* the .ebuild files beside a Manifest
NumEbuilds == 2
\* intervals of time in one run
MaxClock == 3

\* the distfile the DIST line of the Manifest of clone m names
FileOf(m) == IF m = 1 THEN "f" ELSE "g"

\* what the syncer task leaves alone in a step that makes no call on RepoDB
notSyncer == <<requestVars, fetchObs, frontendVars, dbVars, parserVars>>

\* what the syncer task never touches
notSyncerDb == <<requestVars, fetchObs, frontendVars, parserVars>>

\* repo_syncer.rs:96, time::interval(period) keeps the default
\* MissedTickBehavior::Burst: the deadline that follows the deadline
\* timeout, whatever the time now is
next_timeout(timeout, now) == timeout + 1

\* the manifests of changed that parse_ebuilds has not finished
Pending == {m \in changed : m >= srepo}

\* the manifest parse_ebuilds is at
CurManifest == CHOOSE m \in Pending : \A k \in Pending : m <= k

\* repo_syncer.rs:99-103, interval.tick() completes and sync is called
Tick ==
    /\ spc = "tick"
    /\ sticks < MaxTicks
    /\ clock >= deadline
    /\ deadline' = next_timeout(deadline, clock)
    /\ tickat' = clock
    /\ sticks' = sticks + 1
    /\ spc' = "sync_dir"
    /\ sphases' = <<"sync">>
    /\ failed' = {}
    /\ changed' = {}
    /\ differs' = {}
    /\ parsed' = {}
    /\ tickres' = "running"
    /\ srepo' = 1
    /\ sebuild' = 0
    /\ UNCHANGED <<disk, clock, cancel, notSyncer>>

\* one interval of time goes by, whatever the loop is doing; a loop that
\* awaits a tick that is due takes it before the interval is over
Elapse ==
    /\ clock < MaxClock
    /\ spc = "tick" => clock < deadline
    /\ clock' = clock + 1
    /\ UNCHANGED <<spc, sticks, srepo, failed, changed, sebuild, disk, deadline, tickat,
                   cancel, differs, parsed, tickres, sphases, notSyncer>>

\* the service is told to shut down; main.rs:57 spawns start and keeps no
\* handle of it, and start takes no signal
Cancel ==
    /\ ~cancel
    /\ cancel' = TRUE
    /\ UNCHANGED <<spc, sticks, srepo, failed, changed, sebuild, disk, clock,
                   deadline, tickat, differs, parsed, tickres, sphases, notSyncer>>

\* repo_syncer.rs:131-137, sync reads storage_root: an error ends sync
SyncReadDir ==
    /\ spc = "sync_dir"
    /\ \E ok \in BOOLEAN :
          IF ok
          THEN /\ spc' = "sync"
               /\ UNCHANGED <<sphases, tickres>>
          ELSE /\ spc' = after_sync(FALSE)
               /\ sphases' = sphases \o <<"sync_end">> \o PhaseOf(after_sync(FALSE))
               /\ tickres' = "sync failed"
    /\ UNCHANGED <<sticks, srepo, failed, changed, sebuild, disk, clock, deadline, tickat,
                   cancel, differs, parsed, notSyncer>>

\* repo_syncer.rs:138-230, one repository of the loop of sync: open, remote,
\* connect, fetch and hard reset to what upstream has, or the first of
\* them to fail
SyncRepo ==
    /\ spc = "sync"
    /\ srepo <= NumRepos
    /\ \/ /\ failed' = failed \cup {srepo}
          /\ UNCHANGED disk
       \/ /\ \E size \in Sizes : disk' = [disk EXCEPT ![srepo] = size]
          /\ UNCHANGED failed
    /\ srepo' = srepo + 1
    /\ UNCHANGED <<spc, sticks, changed, sebuild, clock, deadline, tickat, cancel, differs,
                   parsed, tickres, sphases, notSyncer>>

\* repo_syncer.rs:232-236 and 103-108, sync returns
SyncReturn ==
    /\ spc = "sync"
    /\ srepo > NumRepos
    /\ spc' = after_sync(failed = {})
    /\ sphases' = sphases \o <<"sync_end">> \o PhaseOf(after_sync(failed = {}))
    /\ tickres' = IF failed = {} THEN tickres ELSE "sync failed"
    /\ srepo' = 1
    /\ UNCHANGED <<sticks, failed, changed, sebuild, disk, clock, deadline, tickat, cancel,
                   differs, parsed, notSyncer>>

\* repo_syncer.rs:242-250, parse_manifests reads storage_root
ManifestsReadDir ==
    /\ spc = "manifests_dir"
    /\ \E ok \in BOOLEAN :
          IF ok
          THEN /\ spc' = "manifests"
               /\ UNCHANGED <<sphases, tickres>>
          ELSE /\ spc' = after_manifests(FALSE)
               /\ sphases' = sphases \o <<"manifests_end">> \o PhaseOf(after_manifests(FALSE))
               /\ tickres' = "manifests failed"
    /\ UNCHANGED <<sticks, srepo, failed, changed, sebuild, disk, clock, deadline, tickat,
                   cancel, differs, parsed, notSyncer>>

\* manifest_walker.rs:146-184, the entry the walker yields for the Manifest
\* of clone m
EntryOf(m) ==
    [file |-> FileOf(m), origin |-> m, size |-> disk[m], blake2b |-> "b1", sha512 |-> None]

\* repo_syncer.rs:254-267, one repository of the loop of parse_manifests:
\* ManifestWalker::new fails, or the entry of its Manifest is inserted and
\* the Manifest is pushed to new when the insert returned Ok
ManifestsRepo ==
    /\ spc = "manifests"
    /\ srepo <= NumRepos
    /\ \/ /\ spc' = after_manifests(FALSE)
          /\ sphases' = sphases \o <<"manifests_end">> \o PhaseOf(after_manifests(FALSE))
          /\ tickres' = "manifests failed"
          /\ srepo' = 1
          /\ UNCHANGED <<changed, differs, dbVars>>
       \/ LET res == insert_manifest_entry(manifest, EntryOf(srepo)) IN
          /\ manifest' = res.table
          /\ dbop' = [op |-> "insert_manifest_entry", file |-> FileOf(srepo), uri |-> 0,
                      size |-> disk[srepo], ok |-> res.ok, n |-> 0]
          /\ changed' = IF res.ok THEN changed \cup {srepo} ELSE changed
          /\ differs' = IF ManifestRow(EntryOf(srepo)) \in manifest
                        THEN differs ELSE differs \cup {srepo}
          /\ srepo' = srepo + 1
          /\ UNCHANGED <<spc, sphases, tickres>>
    /\ UNCHANGED <<sticks, failed, sebuild, disk, clock, deadline, tickat, cancel, parsed,
                   notSyncerDb>>

\* repo_syncer.rs:269 and 109-118, parse_manifests returns Ok(new)
ManifestsReturn ==
    /\ spc = "manifests"
    /\ srepo > NumRepos
    /\ spc' = after_manifests(TRUE)
    /\ sphases' = sphases \o <<"manifests_end">> \o PhaseOf(after_manifests(TRUE))
    /\ srepo' = 1
    /\ UNCHANGED <<sticks, failed, changed, sebuild, disk, clock, deadline, tickat, cancel,
                   differs, parsed, tickres, notSyncer>>

\* repo_syncer.rs:273-288, parse_ebuilds lists the directory of the next
\* changed Manifest: an error ends parse_ebuilds
EbuildsReadDir ==
    /\ spc = "ebuilds"
    /\ Pending # {}
    /\ sebuild = 0
    /\ \E ok \in BOOLEAN :
          IF ok
          THEN /\ srepo' = CurManifest
               /\ sebuild' = 1
               /\ UNCHANGED <<spc, sphases, tickres>>
          ELSE /\ spc' = "tick"
               /\ sphases' = Append(sphases, "ebuilds_end")
               /\ tickres' = "read_dir failed"
               /\ UNCHANGED <<srepo, sebuild>>
    /\ UNCHANGED <<sticks, failed, changed, disk, clock, deadline, tickat, cancel, differs,
                   parsed, notSyncer>>

\* repo_syncer.rs:290-297 with ebuild_parser.rs:24-95, Ebuild::parse of one
\* ebuild: it returns the ebuild with its (filename, uri) pair, which
\* parse_ebuilds drops; or it returns Err, which ends parse_ebuilds; or
\* one of its expects panics, which ends the task
EbuildsParse ==
    /\ spc = "ebuilds"
    /\ Pending # {}
    /\ sebuild \in 1..NumEbuilds
    /\ \E parse \in {"ok", "err", "panic"} :
          IF parse = "ok"
          THEN /\ parsed' = parsed \cup {[file |-> FileOf(CurManifest), uri |-> sebuild]}
               /\ IF sebuild < NumEbuilds
                  THEN sebuild' = sebuild + 1 /\ UNCHANGED srepo
                  ELSE sebuild' = 0 /\ srepo' = CurManifest + 1
               /\ UNCHANGED <<spc, sphases, tickres>>
          ELSE /\ spc' = IF parse = "err" THEN "tick" ELSE "dead"
               /\ sphases' = Append(sphases, "ebuilds_end")
               /\ tickres' = IF parse = "err" THEN "ebuild failed" ELSE "panicked"
               /\ UNCHANGED <<srepo, sebuild, parsed>>
    /\ UNCHANGED <<sticks, failed, changed, disk, clock, deadline, tickat, cancel, differs,
                   notSyncer>>

\* repo_syncer.rs:300 and 118-122, parse_ebuilds returns Ok
EbuildsReturn ==
    /\ spc = "ebuilds"
    /\ Pending = {}
    /\ spc' = "tick"
    /\ sphases' = Append(sphases, "ebuilds_end")
    /\ tickres' = "ok"
    /\ UNCHANGED <<sticks, srepo, failed, changed, sebuild, disk, clock, deadline, tickat,
                   cancel, differs, parsed, notSyncer>>

\* RepoSyncer::new on a fresh storage: the clones are made, the database is empty
SyncerInit == Start /\ src_uri = <<>> /\ manifest = {} /\ NoLine

SyncerNext ==
    \/ Tick
    \/ Elapse
    \/ Cancel
    \/ SyncReadDir
    \/ SyncRepo
    \/ SyncReturn
    \/ ManifestsReadDir
    \/ ManifestsRepo
    \/ ManifestsReturn
    \/ EbuildsReadDir
    \/ EbuildsParse
    \/ EbuildsReturn

SyncerSpec == SyncerInit /\ [][SyncerNext]_vars

(* ------------------------ ManifestEntry::parse ------------------------ *)
\* a part of a line is the sequence of its characters
DIST == <<"D", "I", "S", "T">>
BLAKE2B == <<"B", "L", "A", "K", "E", "2", "B">>
SHA512 == <<"S", "H", "A", "5", "1", "2">>

DecDigits == <<"0", "1", "2", "3", "4", "5", "6", "7", "8", "9">>

IsDigit(c) == \E i \in 1..10 : DecDigits[i] = c

DigitVal(c) == (CHOOSE i \in 1..10 : DecDigits[i] = c) - 1

\* u32::MAX in decimal
U32Max == <<"4", "2", "9", "4", "9", "6", "7", "2", "9", "5">>

\* a decimal numeral without its leading zeros
RECURSIVE StripZeros(_)
StripZeros(d) == IF Len(d) > 1 /\ d[1] = "0" THEN StripZeros(Tail(d)) ELSE d

\* of two numerals of the same length, a is not the greater
RECURSIVE LexLeq(_, _)
LexLeq(a, b) ==
    IF a = <<>> THEN TRUE
    ELSE IF DigitVal(a[1]) < DigitVal(b[1]) THEN TRUE
    ELSE IF DigitVal(a[1]) > DigitVal(b[1]) THEN FALSE
    ELSE LexLeq(Tail(a), Tail(b))

\* of two numerals without leading zeros, a is not the greater
LeqDigits(a, b) == Len(a) < Len(b) \/ (Len(a) = Len(b) /\ LexLeq(a, b))

\* manifest_walker.rs:49, s.parse() for the u32 of ManifestEntry.size: an
\* optional +, then decimal digits only, at least one, and a value that
\* fits 32 bits; the value is kept as its numeral
parse_u32(s) ==
    LET digits == IF s # <<>> /\ s[1] = "+" THEN Tail(s) ELSE s IN
    IF /\ digits # <<>>
       /\ \A i \in 1..Len(digits) : IsDigit(digits[i])
       /\ LeqDigits(StripZeros(digits), U32Max)
    THEN [ok |-> TRUE, value |-> StripZeros(digits)]
    ELSE [ok |-> FALSE, value |-> <<>>]

\* the parts from position i on
From(parts, i) == SubSeq(parts, i, Len(parts))

\* manifest_walker.rs:36-103, the loop over the parts of the line, with
\* what has been found so far in acc, and the checks that follow it
RECURSIVE ParseParts(_, _)
ParseParts(parts, acc) ==
    IF parts = <<>>
    THEN IF acc.file = <<>> \/ acc.size = <<>> THEN NoResult ELSE [acc EXCEPT !.ok = TRUE]
    ELSE IF parts[1] = DIST
    THEN IF Len(parts) < 3 \/ ~parse_u32(parts[3]).ok
         THEN NoResult
         ELSE ParseParts(From(parts, 4),
                         [acc EXCEPT !.file = parts[2], !.size = parse_u32(parts[3]).value])
    ELSE IF parts[1] = BLAKE2B
    THEN IF Len(parts) < 2 THEN NoResult
         ELSE ParseParts(From(parts, 3), [acc EXCEPT !.blake2b = parts[2]])
    ELSE IF parts[1] = SHA512
    THEN IF Len(parts) < 2 THEN NoResult
         ELSE ParseParts(From(parts, 3), [acc EXCEPT !.sha512 = parts[2]])
    ELSE ParseParts(Tail(parts), acc)

\* ManifestEntry::parse(origin, line) on the parts of line.split_whitespace()
ManifestEntry_parse(parts) == ParseParts(parts, NoResult)

\* what may follow DIST <name> in a line
SizeParts ==
    {<<"0">>, <<"7">>, <<"0", "7">>, <<"+", "7">>, <<"-", "7">>, <<"7", "x">>, <<"+">>,
     U32Max,
     <<"4", "2", "9", "4", "9", "6", "7", "2", "9", "6">>,
     <<"9", "9", "9", "9", "9", "9", "9", "9", "9", "9", "9">>}

\* the DIST part of a line, whole or cut short
DistParts ==
    {<<>>, <<DIST>>, <<DIST, <<"f">>>>} \cup {<<DIST, <<"f">>, size>> : size \in SizeParts}

\* the checksums of a line, whole or cut short
SumParts ==
    {<<>>, <<BLAKE2B>>, <<BLAKE2B, <<"a", "b">>>>, <<SHA512, <<"c", "d">>>>,
     <<BLAKE2B, <<"a", "b">>, SHA512, <<"c", "d">>>>, <<SHA512>>, <<<<"E", "B", "U", "I", "L", "D">>>>}

\* the lines of the Manifest files
Lines ==
    {dist \o sums : dist \in DistParts, sums \in SumParts}
    \cup {sums \o dist : dist \in DistParts, sums \in SumParts}

\* manifest_walker.rs:175-183, the walker parses the line it has read
ParseLine ==
    /\ mres = NoResult
    /\ mres' = ManifestEntry_parse(line)
    /\ mres' # NoResult
    /\ UNCHANGED <<line, requestVars, fetchObs, frontendVars, syncerVars, dbVars>>

\* manifest_walker.rs:162-181, the walker reads the next line, after an
\* entry it has yielded or a line it has skipped
NextLine ==
    /\ mres # NoResult \/ ManifestEntry_parse(line) = NoResult
    /\ line' \in Lines
    /\ mres' = NoResult
    /\ UNCHANGED <<requestVars, fetchObs, frontendVars, syncerVars, dbVars>>

\* the walker has read the first line of a Manifest
ParserInit == Start /\ src_uri = <<>> /\ manifest = {} /\ line \in Lines /\ mres = NoResult

ParserNext == ParseLine \/ NextLine

ParserSpec == ParserInit /\ [][ParserNext]_vars

(* ------------------------------- claims ------------------------------- *)
\* the requests that are inside fetcher.fetch for file f
Fetchers(f) == {r \in Requests : fetching(r) /\ rfile[r] = f}

\* C1: for every file, at most one fetcher.fetch call is in progress at any
\* instant
C1_SingleFlight == \A f \in Files : Cardinality(Fetchers(f)) <= 1

\* the leader of the job that r waits on has fetched the file and is about
\* to remove the job and notify (blob_storage.rs:140)
LeaderSucceeded(r) ==
    /\ holds[r] # NoJob
    /\ fetch_jobs[rfile[r]] = holds[r]
    /\ blob[rfile[r]] = "complete"
    /\ \E q \in Requests : /\ rfile[q] = rfile[r]
                           /\ pc[q] = "final"
                           /\ fres[q] = "ok"

\* C2: when the leader's fetch has succeeded, every request in the waiter
\* branch, whether it waits on the notifier already or has only cloned it,
\* is eventually woken
C2_WaitersWoken ==
    \A r \in Requests :
        (pc[r] \in {"prewait", "waiting"} /\ LeaderSucceeded(r))
            ~> (pc[r] \notin {"prewait", "waiting"})

\* the step in which call r returns res
Returns(r, res) == pc[r] # "done" /\ pc'[r] = "done" /\ result'[r] = res

\* C3: at the moment request returns a path, the file there is complete
C3_ReturnsComplete ==
    [][\A r \in Requests : Returns(r, "ok") => blob'[rfile[r]] = "complete"]_vars

\* C4: fetch returns Ok only if a store call of this fetch returned Ok; with
\* every mirror failing and no download from a URI it returns Err
C4_FetchOkStored == \A r \in Requests : fres[r] = "ok" => stored[r]

\* C5: at the moment request returns an error there is no file at the path,
\* unless it is a complete one
C5_ErrLeavesNoPartial ==
    [][\A r \in Requests : Returns(r, "err") => blob'[rfile[r]] # "partial"]_vars

\* the step in which call r, its fetch failed, notifies one waiter and
\* returns the error (blob_storage.rs:126-129)
Elects(r) == pc[r] = "decide" /\ pc'[r] = "done"

\* the calls for file f that lead or are about to: in fetch, woken, or about
\* to take the permit of the notifier in the map
Leading(f) ==
    Cardinality({q \in Requests : rfile[q] = f /\ (fetching(q) \/ pc[q] = "woken")})
    + (IF fetch_jobs[f] # NoJob /\ permit[fetch_jobs[f]] THEN 1 ELSE 0)

\* C6: when a failed leader elects, the job entry stays in the map and the
\* woken waiter, and nobody else, is the next leader
C6_ElectsOneLeader ==
    [][\A r \in Requests : Elects(r) =>
          /\ fetch_jobs' = fetch_jobs
          /\ fetch_jobs[rfile[r]] # NoJob
          /\ Leading(rfile[r])' = 1]_vars

\* no call for file f is in progress
Quiescent(f) == \A r \in Requests : rfile[r] = f => Free(r)

\* no other call holds the notifier of the job of r's file
NoWaiter(r) ==
    \A q \in Requests \ {r} : holds[q] = NoJob \/ holds[q] # fetch_jobs[rfile[r]]

C8_FetchesBounded ==
    \A r \in Requests : fetching(r) => how[r] \in {"leader", "elected"}

\* the scenario of C9 for file f: no URI is known and no GET of the file has
\* been answered with a body
AllSourcesFail(f) == get_src_uri(f) = <<>> /\ ~gotBody[f]

\* C9: with every source failing, fetches run strictly one at a time
C9_OneAtATime ==
    \A f \in Files : AllSourcesFail(f) => Cardinality(Fetchers(f)) <= 1

\* C10: a call that begins after request has returned ok for the same file
\* is a cache hit: it returns from the first lock section and never becomes
\* a waiter or a leader
C10_SecondIsHit ==
    \A r \in Requests : afterOk[r] => pc[r] = "lock"

(* ---------------------- claims about the Fetcher ---------------------- *)
\* the step in which the store call of r returns Err: to the next mirror, to
\* fetch_src_uri after the last mirror, or out of fetch_src_uri and fetch
StoreErr(r) ==
    /\ pc[r] \in {"st_create", "st_write"}
    /\ pc'[r] \in {"fm_select", "su_get", "cleanup"}

\* the step in which the store call of r returns Ok because a file is at
\* the path (fetcher.rs:86-88)
StoreFound(r) == pc[r] = "st_check" /\ pc'[r] \notin {"st_check", "st_create"}

\* C11: every error return of store leaves no file at the path, and a store
\* call that returns Ok for a file it found has found a complete one
C11_StoreErrNoFile ==
    [][\A r \in Requests :
          /\ StoreErr(r) => blob'[rfile[r]] = "absent"
          /\ StoreFound(r) => blob[rfile[r]] = "complete"]_vars

\* the mirrors in sequence t are pairwise different
Distinct(t) == \A i, j \in 1..Len(t) : i # j => t[i] # t[j]

\* C12: a fetch whose mirror loop has failed has tried every configured
\* mirror exactly once
C12_DistinctMirrors ==
    \A r \in Requests :
        pc[r] = "su_get" => Len(tried[r]) = NumMirrors /\ Distinct(tried[r])

\* fetch q, the first fetch made, has returned Ok after it failed on mirror
\* 0 and stored the file from mirror 1 (no URI is known for its file)
FailedM1OkM2(q) ==
    /\ pc[q] = "final"
    /\ fres[q] = "ok"
    /\ stored[q]
    /\ tried[q] = <<0, 1>>
    /\ get_src_uri(rfile[q]) = <<>>
    /\ ncalls = 2

\* the step in which select_mirror hands a mirror to the fetch of r
Selects(r) == tried'[r] # tried[r]

\* C13 as stated: the fetch that begins after a fetch that failed on m1 and
\* succeeded on m2 tries m2 first, and m1 only after it
C13_NextStartsAtM2 ==
    [][\A q, r \in Requests :
          FailedM1OkM2(q) /\ q \in after[r] /\ rfile[r] # rfile[q] /\ Selects(r)
              => tried'[r] \in {<<1>>, <<1, 0>>}]_vars

\* C13 amended: the cursor has advanced past m2 too, so that the fetch that
\* follows goes on in the cycle after m2: with the two mirrors [m1, m2] it
\* tries m1 first, and m2 only after m1 has failed
C13_NextStartsAtM1 ==
    [][\A q, r \in Requests :
          FailedM1OkM2(q) /\ q \in after[r] /\ rfile[r] # rfile[q] /\ Selects(r)
              => \A i \in 1..Len(tried'[r]) : tried'[r][i] = (1 + i) % NumMirrors]_vars

\* C13 happens: the fetch that followed has failed on m1 and tried m2
C13_SecondTriedBoth ==
    \E q, r \in Requests :
        FailedM1OkM2(q) /\ q \in after[r] /\ rfile[r] # rfile[q] /\ tried[r] = <<0, 1>>

RECURSIVE SumLen(_, _)
SumLen(t, S) ==
    IF S = {} THEN 0
    ELSE LET r == CHOOSE x \in S : TRUE IN Len(t[r]) + SumLen(t, S \ {r})

\* the number of select_mirror calls that have taken effect
Handed == SumLen(tried, Requests)

\* C14: the cursor stays in [0, len(mirrors)), and the k-th select_mirror
\* call to take effect, whichever fetch makes it, hands out mirror
\* k mod len(mirrors) and leaves the cursor on the next one
C14_CursorCyclic ==
    /\ [](next_mirror \in 0..(NumMirrors - 1) /\ next_mirror = Handed % NumMirrors)
    /\ [][\A r \in Requests :
             Selects(r) => tried'[r] = Append(tried[r], Handed % NumMirrors)]_vars

\* C14 happens: two fetches have taken the mirrors in turn, twice around
C14_Interleaved == tried[1] = <<0, 0>> /\ tried[2] = <<1, 1>>

\* the step in which the store call of r, made for a URI, has written the
\* file and returns Ok
UriStored(r) ==
    /\ src[r] = "uri"
    /\ pc[r] = "st_write"
    /\ pc'[r] \in {"su_loop", "final"}

\* C15: once a URI has been downloaded and stored, fetch returns Ok at
\* once and requests no later URI
C15_ReturnsAtFirstSuccess ==
    [][\A r \in Requests : UriStored(r) => pc'[r] = "final" /\ fres'[r] = "ok"]_vars

\* the step in which the GET of r's current URI fails
UriGetFailed(r) ==
    /\ pc[r] = "su_loop"
    /\ pc'[r] # "st_check"
    /\ uidx'[r] # uidx[r] \/ pc'[r] # "su_loop"

\* C16: an error on a URI that is not the last, be it in the GET or in
\* store, moves on to the next URI
C16_ErrorMovesOn ==
    [][\A r \in Requests :
          /\ src[r] = "uri"
          /\ uidx[r] < Len(uris[r])
          /\ UriGetFailed(r) \/ StoreErr(r)
          => pc'[r] = "su_loop" /\ uidx'[r] = uidx[r] + 1]_vars

\* C17: in a mirror attempt the file URL is requested exactly when the
\* answer to the layout request is the canonical body; a mirror with any
\* other answer is skipped and the loop goes on
C17_LayoutExact ==
    [][\A r \in Requests :
          Selects(r) =>
              /\ seen'.by = r
              /\ seen'.requested <=> seen'.layout = LayoutCanonical
              /\ ~seen'.requested =>
                     pc'[r] = (IF Len(tried'[r]) = NumMirrors THEN "su_get" ELSE "fm_select")
              /\ pc'[r] = "st_check" => seen'.requested]_vars

\* C17 happens: a mirror whose layout.conf lacks the final newline has been
\* skipped and the fetch is about to take the next mirror
C17_SkippedNoNewline ==
    /\ seen.layout = "[structure]\n0=filename-hash BLAKE2B 8"
    /\ ~seen.requested
    /\ seen.by \in Requests
    /\ pc[seen.by] = "fm_select"
    /\ Len(tried[seen.by]) = 1

(* ---------------------- claims about the frontend --------------------- *)
\* the digest segment of the request r handles is not 2 characters long or
\* is not the directory of the file
BadDigest(r) ==
    \/ Len(hargs[r].digest) # 2
    \/ hargs[r].digest # filename_hash_dir_blake2b(hargs[r].file)

\* C18: a request whose digest segment is not 2 characters long or is not
\* the directory of the file is answered with 400 and with nothing else,
\* and request is not called for it
C18_BadDigestRejected ==
    \A r \in Requests :
        BadDigest(r) => hpc[r] # "request" /\ status[r] \in {"none", "400"}

(* ------------------ claims about the job entries ---------------------- *)
\* C29: while a call of fetcher.fetch for a file is in progress, the map
\* fetch_jobs has an entry for the file
C29_FetchHasEntry ==
    \A r \in Requests : fetching(r) => fetch_jobs[rfile[r]] # NoJob

\* call q acts as the leader of the job of its file: it inserted the entry
\* or was woken by notify_one, and has not yet left the map's critical
\* section that follows its fetch
ActsAsLeader(q) ==
    /\ how[q] \in {"leader", "elected"}
    /\ fetching(q) \/ pc[q] \in {"woken", "cleanup", "cleanup_rm", "decide", "final"}

\* C30: an entry of the map has a call acting as its leader, or its
\* notifier holds a permit for the call that will
C30_EntryHasLeader ==
    \A f \in Files :
        fetch_jobs[f] # NoJob
            => \/ \E q \in Requests : rfile[q] = f /\ ActsAsLeader(q)
               \/ permit[fetch_jobs[f]]

\* the step in which the cleanup of call r, its fetch failed, unlinks the
\* file at the path (blob_storage.rs:117-120)
CleanupUnlinks(r) ==
    pc[r] = "cleanup_rm" /\ is_file(rfile[r]) /\ blob'[rfile[r]] = "absent"

\* C31: the cleanup after a failed fetch never unlinks a file that another
\* call for the same file has written completely
C31_CleanupSparesComplete ==
    [][\A r \in Requests : CleanupUnlinks(r) => blob[rfile[r]] # "complete"]_vars

\* C32: no lock is held across the await on fetcher.fetch: while a call
\* is in fetcher.fetch for one file and a handler for another file is at
\* the mutex of SharedData.storage, the mutex is free for it to enter request
C32_NoLockAcrossFetch ==
    \A r, q \in Requests :
        fetching(r) /\ hpc[q] = "locking" /\ hargs[q].file # rfile[r] => storage = NoJob

(* ------------------------ claims about RepoDB ------------------------- *)
\* the step is a call of operation op on RepoDB
Calls(op) == dbop' # dbop /\ dbop'.op = op

\* C22: insert_manifest_entry with an entry whose file has a row succeeds
\* and leaves the row of the file with the entry's origin, size and
\* checksums; the table never has two rows for a file
C22_Upsert ==
    /\ [](\A a, b \in manifest : a.file = b.file => a = b)
    /\ [][Calls("insert_manifest_entry") /\ dbop'.file \in FilesOf(manifest)
             => /\ dbop'.ok
                /\ \E row \in manifest' : row.file = dbop'.file /\ row.size = dbop'.size]_vars

\* C24: insert_src_uri with a uri that has a row returns Ok and leaves the
\* table src_uri as it was
C24_DuplicateUriIgnored ==
    [][Calls("insert_src_uri") /\ dbop'.uri \in UrisOf(src_uri)
           => dbop'.ok /\ src_uri' = src_uri]_vars

\* C25: every row of src_uri has a file with a row in manifest;
\* insert_src_uri for a file without a manifest row fails and changes
\* nothing; deleting the manifest row of a file leaves no src_uri row of it
C25_ReferentialIntegrity ==
    /\ [](\A i \in 1..Len(src_uri) : src_uri[i].file \in FilesOf(manifest))
    /\ [][Calls("insert_src_uri") /\ dbop'.file \notin FilesOf(manifest)
             => ~dbop'.ok /\ src_uri' = src_uri /\ manifest' = manifest]_vars
    /\ [][Calls("delete") => SelectUris(src_uri', dbop'.file) = <<>>]_vars

\* C25 happens: a delete has removed a src_uri row with its manifest row,
\* and a row of the other file is kept
C25_DeleteCascaded ==
    /\ dbop.op = "delete"
    /\ dbop.n >= 1
    /\ src_uri # <<>>

(* ---------------------- claims about RepoSyncer ----------------------- *)
\* the phases of a tick in their order, each with its end
TickPhases == <<"sync", "sync_end", "manifests", "manifests_end", "ebuilds", "ebuilds_end">>

\* sequence p is the beginning of sequence t
IsPrefix(p, t) == Len(p) <= Len(t) /\ \A i \in 1..Len(p) : p[i] = t[i]

\* C19: in every tick a phase begins only when the phase before it has
\* ended, in the order sync, parse_manifests, parse_ebuilds, and a tick
\* begins only when every phase of the tick before it has ended
C19_PhasesInOrder ==
    /\ [](IsPrefix(sphases, TickPhases))
    /\ [][sticks' # sticks => Len(sphases) % 2 = 0]_vars

\* C19 happens: in the second tick the three phases have run
C19_SecondTickRan == sticks = 2 /\ sphases = TickPhases

\* C20: when sync returns with a git error for some repository,
\* parse_manifests begins in the same tick
C20_ParseAfterGitError ==
    [][spc = "sync" /\ spc' # "sync" /\ failed # {}
           => spc' = "manifests_dir" /\ sticks' = sticks]_vars

\* uri is among the uris get_src_uri returns for file
HasUri(file, uri) == \E i \in 1..Len(get_src_uri(file)) : get_src_uri(file)[i] = uri

\* C21: when a tick has completed, every (filename, uri) pair the parser
\* returned for an ebuild beside a changed Manifest, with filename in the
\* table manifest, is among the rows get_src_uri(filename) returns
C21_UrisRecorded ==
    tickres = "ok" =>
        \A p \in parsed : p.file \in FilesOf(manifest) => HasUri(p.file, p.uri)

\* C23: when parse_manifests returns, every Manifest with an entry that was
\* new to the database or differed from the stored row is among the
\* manifests it returns
C23_ChangedReturned ==
    [][spc = "manifests" /\ spc' = "ebuilds" => differs \subseteq changed]_vars

\* the step in which Ebuild::parse returns Err for an ebuild
ParseFails == spc = "ebuilds" /\ tickres' = "ebuild failed"

\* C26: when the parser fails on one ebuild while ebuilds of the same
\* Manifest or further changed Manifests are left, parse_ebuilds goes on
\* with them in the same tick
C26_ErrorSkipsOne ==
    [][ParseFails /\ (sebuild < NumEbuilds \/ Pending # {CurManifest})
           => spc' = "ebuilds" /\ sticks' = sticks]_vars

\* C27: no two ticks begin within the same interval of time: the ticks
\* missed while a tick was running are not made up for one after the other
C27_MissedTicksSkipped ==
    [][sticks' # sticks /\ sticks > 0 => clock > tickat]_vars

\* C28: once shutdown has been signalled no further tick begins
C28_NoTickAfterCancel ==
    [][cancel => sticks' = sticks]_vars

(* ----------------- claims about ManifestEntry::parse ------------------ *)
\* part s is a decimal numeral: digits only, at least one
IsNumeral(s) == s # <<>> /\ \A i \in 1..Len(s) : IsDigit(s[i])

\* C33: a line DIST <name> <size> whose size is a decimal numeral, of
\* 2^32 or more too, yields an entry with exactly that size
C33_AnySizeAccepted ==
    [][\A name \in {<<"f">>}, size \in SizeParts :
          line = <<DIST, name, size>> /\ IsNumeral(size) /\ line' # line
              => mres.ok /\ mres.size = StripZeros(size)]_vars

====
